---------------------------- MODULE Spec2Model ----------------------------
(***************************************************************************)
(* Electricity Analytics Dashboard: the data preparation and metrics       *)
(* pipeline (data_loader.py, metrics_calculator.py, chart_utils.py,        *)
(* sidebar_controls.py) and the render cycle of app.py.                    *)
(*                                                                         *)
(* Numbers are exact rationals <<num, den>> (den > 0, lowest terms);       *)
(* <<0, 0>> is NaN.  Timestamps are minutes since 1970-01-01 00:00, dates  *)
(* are days since 1970-01-01.  A DataFrame is a record of its column names *)
(* (in order) and its rows (index timestamp + one value per column).       *)
(*                                                                         *)
(* A value that is used more than once is handed on as an operator         *)
(* parameter, so that it is computed once.                                 *)
(***************************************************************************)
EXTENDS Integers, Sequences, FiniteSets, TLC

VARIABLES consFile, priceFile, cache, loads, widgets, cycle, df, call, ret

vars == <<consFile, priceFile, cache, loads, widgets, cycle, df, call, ret>>

\* Largest number of rows of a source table or of a directly supplied frame.
MaxRows == 3

\* Largest number of executions of load_data's body in one process.
MaxLoads == 2

-----------------------------------------------------------------------------
(* Exact arithmetic standing for the float64 columns *)

NaN == <<0, 0>>

Abs(n) == IF n < 0 THEN 0 - n ELSE n

RECURSIVE GCD(_, _)
GCD(a, b) == IF b = 0 THEN a ELSE GCD(b, a % b)

Reduced(n, d, g) == <<n \div g, d \div g>>

Norm(n, d) ==
    IF d = 0 THEN NaN
    ELSE Reduced(IF d < 0 THEN 0 - n ELSE n, Abs(d), GCD(Abs(n), Abs(d)))

Num(n) == <<n, 1>>

IsNaN(x) == x[2] = 0

FAdd(x, y) == IF IsNaN(x) \/ IsNaN(y) THEN NaN
              ELSE Norm(x[1] * y[2] + y[1] * x[2], x[2] * y[2])

FSub(x, y) == IF IsNaN(x) \/ IsNaN(y) THEN NaN
              ELSE Norm(x[1] * y[2] - y[1] * x[2], x[2] * y[2])

FMul(x, y) == IF IsNaN(x) \/ IsNaN(y) THEN NaN
              ELSE Norm(x[1] * y[1], x[2] * y[2])

\* a float64 division by zero gives inf or nan, never an exception; both are
\* kept as the one non-finite value
FDiv(x, y) == IF IsNaN(x) \/ IsNaN(y) THEN NaN
              ELSE Norm(x[1] * y[2], x[2] * y[1])

FLess(x, y) == ~IsNaN(x) /\ ~IsNaN(y) /\ x[1] * y[2] < y[1] * x[2]

-----------------------------------------------------------------------------
(* Calendar: datetime.date, Timestamp.date(), replace(day=1), strftime *)

DaysOfEra(era, yoe, doy) ==
    era * 146097 + (yoe * 365 + (yoe \div 4) - (yoe \div 100) + doy) - 719468

DaysOfShifted(yy, mp, d) ==
    DaysOfEra(yy \div 400, yy % 400, ((153 * mp + 2) \div 5) + d - 1)

\* the day number of the date y-m-d (proleptic Gregorian calendar)
DaysFromCivil(y, m, d) ==
    DaysOfShifted(IF m <= 2 THEN y - 1 ELSE y, IF m > 2 THEN m - 3 ELSE m + 9, d)

CivilOfMonth(y, doy, mp) ==
    [Y |-> IF mp < 10 THEN y ELSE y + 1,
     m |-> IF mp < 10 THEN mp + 3 ELSE mp - 9,
     d |-> doy - ((153 * mp + 2) \div 5) + 1]

CivilOfDay(y, doy) == CivilOfMonth(y, doy, (5 * doy + 2) \div 153)

CivilOfYear(era, doe, yoe) ==
    CivilOfDay(yoe + era * 400, doe - (365 * yoe + (yoe \div 4) - (yoe \div 100)))

CivilOfEra(era, doe) ==
    CivilOfYear(era, doe,
                (doe - (doe \div 1460) + (doe \div 36524) - (doe \div 146096)) \div 365)

\* year, month and day of a day number
CivilFromDays(z) == CivilOfEra((z + 719468) \div 146097, (z + 719468) % 146097)

DaysInMonth(y, m) ==
    IF m = 2 THEN (IF (y % 4 = 0 /\ y % 100 # 0) \/ y % 400 = 0 THEN 29 ELSE 28)
    ELSE IF m \in {4, 6, 9, 11} THEN 30 ELSE 31

\* Timestamp.date(): the calendar date of a timestamp
DateOf(ts) == ts \div 1440

\* pd.to_datetime(date): midnight of that date
Midnight(date) == date * 1440

\* Timestamp.replace(day=1)
ReplaceDay1(date) == DaysFromCivil(CivilFromDays(date).Y, CivilFromDays(date).m, 1)

\* datetime.date.weekday(): Monday = 0 ... Sunday = 6
Weekday(date) == (date + 3) % 7

\* date.strftime('%Y-%m-%d'): the text, kept as its three numbers
Strftime(date) ==
    <<CivilFromDays(date).Y, CivilFromDays(date).m, CivilFromDays(date).d>>

\* a timestamp from a calendar date and a time of day
Stamp(Y, m, d, H, M) == DaysFromCivil(Y, m, d) * 1440 + H * 60 + M

-----------------------------------------------------------------------------
(* DataFrames *)

\* pd.DataFrame(): no columns, no rows
EmptyFrame == [columns |-> <<>>, rows |-> <<>>]

\* DataFrame.empty
IsEmpty(frame) == Len(frame.columns) = 0 \/ Len(frame.rows) = 0

\* frame[c] raises KeyError when c is no column of the frame
HasColumn(frame, c) == \E i \in 1..Len(frame.columns) : frame.columns[i] = c

\* DatetimeIndex.is_monotonic_increasing
IsMonotonicIncreasing(frame) ==
    \A i \in 1..Len(frame.rows) - 1 : frame.rows[i].ts <= frame.rows[i + 1].ts

\* the column names load_data gives the joined frame, as the bytes of the file
\* read as UTF-8 ("\xNN" writes one byte of a non-ASCII character)
LoadedConsumption == "Consumption (kWh)"
LoadedPrice == "Price (cents/kWh)"
LoadedTemperature == "Temperature (\\xc3\\x82\\xc2\\xb0C)"
LoadedBill == "Bill (\\xc3\\xa2\\xe2\\x80\\x9a\\xc2\\xac)"

\* the column names the metrics, the charts and the sidebar look up
ConsumptionCol == "Consumption (kWh)"
PriceCol == "Price (cents/kWh)"
TemperatureCol == "Temperature (\\xc2\\xb0C)"
BillCol == "Bill (\\xe2\\x82\\xac)"

Ok(v) == [raised |-> "None", value |-> v]

Raise(exc) == [raised |-> exc, value |-> <<>>]

-----------------------------------------------------------------------------
(* data_loader.load_data *)

\* a missing file
Absent == [present |-> FALSE, rows |-> <<>>]

File(rows) == [present |-> TRUE, rows |-> rows]

\* text of a consumption 'time' cell, "YYYY-MM-DD HH:MM:SS"
IsoText(Y, m, d, H, M) == [layout |-> "iso", Y |-> Y, m |-> m, d |-> d, H |-> H, M |-> M]

\* text of a price 'timestamp' cell, "HH:MM MM/DD/YYYY"
PriceText(H, M, m, d, Y) == [layout |-> "HM mdY", Y |-> Y, m |-> m, d |-> d, H |-> H, M |-> M]

ValidFields(t) ==
    /\ t.m \in 1..12
    /\ t.d \in 1..DaysInMonth(t.Y, t.m)
    /\ t.H \in 0..23
    /\ t.M \in 0..59

\* pd.to_datetime(text): parses ISO text
CanParseTime(t) == t.layout = "iso" /\ ValidFields(t)

\* pd.to_datetime(text, format="%H:%M %m/%d/%Y")
CanParseFormat(t) == t.layout = "HM mdY" /\ ValidFields(t)

ParseText(t) == Stamp(t.Y, t.m, t.d, t.H, t.M)

\* df_cons: 'time' parsed and made the index
ConsTable(file) ==
    [i \in 1..Len(file.rows) |->
        [ts |-> ParseText(file.rows[i].time), kWh |-> file.rows[i].kWh]]

\* df_price: 'timestamp' parsed and made the index
PriceTable(file) ==
    [i \in 1..Len(file.rows) |->
        [ts |-> ParseText(file.rows[i].timestamp),
         Price |-> file.rows[i].Price,
         Temperature |-> file.rows[i].Temperature]]

\* the rows df_cons.join(df_price) makes of one row of df_cons: one per price
\* row of the same timestamp, in the price table's order
RECURSIVE MatchesOf(_, _, _)
MatchesOf(c, price, j) ==
    IF j > Len(price) THEN <<>>
    ELSE (IF price[j].ts = c.ts
          THEN <<[ts |-> c.ts, kWh |-> c.kWh, Price |-> price[j].Price,
                  Temperature |-> price[j].Temperature]>>
          ELSE <<>>) \o MatchesOf(c, price, j + 1)

\* a row of df_cons without a price row keeps missing Price and Temperature
OrUnmatched(c, m) ==
    IF Len(m) = 0
    THEN <<[ts |-> c.ts, kWh |-> c.kWh, Price |-> NaN, Temperature |-> NaN]>>
    ELSE m

JoinOne(c, price) == OrUnmatched(c, MatchesOf(c, price, 1))

\* df_cons.join(df_price): a left join on the index, in df_cons's order
RECURSIVE Join(_, _, _)
Join(cons, price, i) ==
    IF i > Len(cons) THEN <<>>
    ELSE JoinOne(cons[i], price) \o Join(cons, price, i + 1)

Complete(r) == ~IsNaN(r.kWh) /\ ~IsNaN(r.Price) /\ ~IsNaN(r.Temperature)

\* df.dropna()
DropNa(rows) == SelectSeq(rows, Complete)

\* df['Bill'] = df['kWh'] * (df['Price'] / 100), then the rename
Renamed(rows) ==
    [columns |-> <<LoadedConsumption, LoadedPrice, LoadedTemperature, LoadedBill>>,
     rows |-> [i \in 1..Len(rows) |->
        [ts |-> rows[i].ts,
         val |-> (LoadedConsumption :> rows[i].kWh)
              @@ (LoadedPrice :> rows[i].Price)
              @@ (LoadedTemperature :> rows[i].Temperature)
              @@ (LoadedBill :> FMul(rows[i].kWh, FDiv(rows[i].Price, Num(100))))]]]

ConsNotFound == "Error: consumption file not found"
PriceNotFound == "Error: price file not found"
PriceDateError == "Error parsing dates in price file"

Returned(errors, frame) == [raised |-> "None", errors |-> errors, df |-> frame]

Raised(exc) == [raised |-> exc, errors |-> <<>>, df |-> EmptyFrame]

\* variant: the joined rows come out newest first
NewestFirst(frame) ==
    [columns |-> frame.columns,
     rows |-> [i \in 1..Len(frame.rows) |-> frame.rows[Len(frame.rows) + 1 - i]]]

JoinTablesNewestFirst(cons, price) ==
    NewestFirst(Renamed(DropNa(Join(ConsTable(cons), PriceTable(price), 1))))

\* variant: the joined rows are not passed through dropna
JoinTablesKeepingNaN(cons, price) ==
    Renamed(Join(ConsTable(cons), PriceTable(price), 1))

\* lines 46-63: join, drop the incomplete rows, derive the bill, rename
JoinTables(cons, price) ==
    Renamed(DropNa(Join(ConsTable(cons), PriceTable(price), 1)))

\* variant: a missing price file is read as a table without rows
load_data_empty_price(cons, price) ==
    IF ~cons.present THEN Returned(<<ConsNotFound>>, EmptyFrame)
    ELSE IF \E i \in 1..Len(cons.rows) : ~CanParseTime(cons.rows[i].time)
    THEN Raised("ValueError")
    ELSE IF \E i \in 1..Len(price.rows) : ~CanParseFormat(price.rows[i].timestamp)
    THEN Returned(<<PriceDateError, "ValueError">>, EmptyFrame)
    ELSE Returned(<<>>, JoinTables(cons, price))

\* the body of load_data: what it reports with st.error and what it returns
\* (or the exception it lets through)
load_data(cons, price) ==
    IF ~cons.present THEN Returned(<<ConsNotFound>>, EmptyFrame)
    ELSE IF \E i \in 1..Len(cons.rows) : ~CanParseTime(cons.rows[i].time)
    THEN Raised("ValueError")
    ELSE IF ~price.present THEN Returned(<<PriceNotFound>>, EmptyFrame)
    ELSE IF \E i \in 1..Len(price.rows) : ~CanParseFormat(price.rows[i].timestamp)
    THEN Returned(<<PriceDateError, "ValueError">>, EmptyFrame)
    ELSE Returned(<<>>, JoinTables(cons, price))

\* @st.cache_data: the stored return value of load_data, or nothing yet
NotCached == [hit |-> FALSE, value |-> Returned(<<>>, EmptyFrame)]

\* variant: a return without rows is not stored, so the next run loads again
StoreResultWithRows(c, v) ==
    [value |-> v,
     cache |-> IF v.raised = "None" /\ ~IsEmpty(v.df) THEN [hit |-> TRUE, value |-> v] ELSE c,
     ran |-> 1]

\* a normal return is stored, an exception is not
StoreResult(c, v) ==
    [value |-> v, cache |-> IF v.raised = "None" THEN [hit |-> TRUE, value |-> v] ELSE c, ran |-> 1]

\* a call of the decorated load_data(): a stored value is returned without
\* running the body
CallLoadData(c, cons, price) ==
    IF c.hit THEN [value |-> c.value, cache |-> c, ran |-> 0]
    ELSE StoreResult(c, load_data(cons, price))

-----------------------------------------------------------------------------
(* data_loader.filter_data_by_date_range and calculate_default_date_range *)

\* the date a 'YYYY-MM-DD' text names
ParseDay(text) == DaysFromCivil(text[1], text[2], text[3])

\* variant: the left bound passes the rows equal to the value
SearchSortedLeftPastEqual(rows, v) == Cardinality({i \in 1..Len(rows) : rows[i].ts <= v})

\* numpy searchsorted on the sorted index: the number of rows before the
\* insertion point of v
SearchSortedLeft(rows, v) == Cardinality({i \in 1..Len(rows) : rows[i].ts < v})

SearchSortedRight(rows, v) == Cardinality({i \in 1..Len(rows) : rows[i].ts <= v})

SubFrame(frame, rows) == [columns |-> frame.columns, rows |-> rows]

\* variant: the slice ends at midnight of the end date
LocSliceToMidnight(frame, lo, hi) ==
    IF IsMonotonicIncreasing(frame)
    THEN Ok(SubFrame(frame,
                     SubSeq(frame.rows,
                            SearchSortedLeft(frame.rows, Midnight(ParseDay(lo))) + 1,
                            SearchSortedRight(frame.rows, Midnight(ParseDay(hi))))))
    ELSE Raise("KeyError")

\* frame.loc[lo:hi] with two 'YYYY-MM-DD' texts: a day text bounds the slice by
\* the first instant of lo's day and the last instant of hi's day.  A sorted
\* index is cut by binary search; an unsorted one is refused, because the last
\* instant of a day is no key of the index.
LocSlice(frame, lo, hi) ==
    IF IsMonotonicIncreasing(frame)
    THEN Ok(SubFrame(frame,
                     SubSeq(frame.rows,
                            SearchSortedLeft(frame.rows, Midnight(ParseDay(lo))) + 1,
                            SearchSortedRight(frame.rows, Midnight(ParseDay(hi)) + 1439))))
    ELSE Raise("KeyError")

filter_data_by_date_range(frame, start_date, end_date) ==
    LocSlice(frame, Strftime(start_date), Strftime(end_date))

IndexSet(frame) == {frame.rows[i].ts : i \in 1..Len(frame.rows)}

LeastOf(S) == CHOOSE t \in S : \A u \in S : t <= u

\* df.index.min(), df.index.max()
IndexMin(frame) == LeastOf(IndexSet(frame))

IndexMax(frame) == CHOOSE t \in IndexSet(frame) : \A u \in IndexSet(frame) : t >= u

MaxDate(a, b) == IF a >= b THEN a ELSE b

MinDate(a, b) == IF a <= b THEN a ELSE b

\* variant: the clamped dates are returned as they are
FallbackNever(min_date, max_date, default_start_date, default_end_date) ==
    <<default_start_date, default_end_date>>

\* lines 106-112: the full range when the clamped window is empty
Fallback(min_date, max_date, default_start_date, default_end_date) ==
    IF default_start_date > default_end_date
    THEN <<min_date, max_date>>
    ELSE <<default_start_date, default_end_date>>

\* variant: the start of the month is not clamped to the first date of the data
ClampedRangeWholeMonth(min_date, max_date, default_end_date_dt) ==
    Fallback(min_date, max_date,
             ReplaceDay1(default_end_date_dt),
             MinDate(max_date, default_end_date_dt))

\* lines 98-104: the month of default_end_date_dt, clamped to the data
ClampedRange(min_date, max_date, default_end_date_dt) ==
    Fallback(min_date, max_date,
             MaxDate(min_date, ReplaceDay1(default_end_date_dt)),
             MinDate(max_date, default_end_date_dt))

\* line 97: the day before the first of max_date's month
DefaultRange(min_date, max_date) ==
    ClampedRange(min_date, max_date, ReplaceDay1(max_date) - 1)

\* of a frame with at least one row
calculate_default_date_range(frame) ==
    DefaultRange(DateOf(IndexMin(frame)), DateOf(IndexMax(frame)))

-----------------------------------------------------------------------------
(* Series reductions *)

\* frame[c] as the sequence of its values
Column(frame, c) == [i \in 1..Len(frame.rows) |-> frame.rows[i].val[c]]

RECURSIVE SumFrom(_, _)
SumFrom(xs, i) == IF i > Len(xs) THEN Num(0) ELSE FAdd(xs[i], SumFrom(xs, i + 1))

\* Series.sum(): 0 of no values
SeriesSum(xs) == SumFrom(xs, 1)

\* Series.mean(): NaN of no values
SeriesMean(xs) == IF Len(xs) = 0 THEN NaN ELSE FDiv(SeriesSum(xs), Num(Len(xs)))

SeriesMax(xs) ==
    IF Len(xs) = 0 THEN NaN
    ELSE xs[CHOOSE i \in 1..Len(xs) : \A j \in 1..Len(xs) : ~FLess(xs[i], xs[j])]

SeriesMin(xs) ==
    IF Len(xs) = 0 THEN NaN
    ELSE xs[CHOOSE i \in 1..Len(xs) : \A j \in 1..Len(xs) : ~FLess(xs[j], xs[i])]

SquaresAround(xs, mu) ==
    [i \in 1..Len(xs) |-> FMul(FSub(xs[i], mu), FSub(xs[i], mu))]

\* Series.std(): the square root (kept symbolic) of the sample variance, NaN of
\* fewer than two values
SeriesStd(xs) ==
    IF Len(xs) < 2 THEN [sqrt_of |-> NaN]
    ELSE [sqrt_of |-> FDiv(SeriesSum(SquaresAround(xs, SeriesMean(xs))),
                           Num(Len(xs) - 1))]

-----------------------------------------------------------------------------
(* metrics_calculator.calculate_overall_metrics *)

\* (end_date - start_date).days + 1
DaysInWindow(start_date, end_date) == (end_date - start_date) + 1

\* variant: the score is the quotient whenever avg_price is not zero
SummaryDividingNonZero(frame, total_consumption, avg_price, num_days_in_filter, daily_avg_consumption) ==
    [total_consumption |-> total_consumption,
     total_bill |-> SeriesSum(Column(frame, BillCol)),
     avg_price |-> avg_price,
     avg_temp |-> SeriesMean(Column(frame, TemperatureCol)),
     max_consumption |-> SeriesMax(Column(frame, ConsumptionCol)),
     min_consumption |-> SeriesMin(Column(frame, ConsumptionCol)),
     price_volatility |-> SeriesStd(Column(frame, PriceCol)),
     temp_range |-> FSub(SeriesMax(Column(frame, TemperatureCol)),
                         SeriesMin(Column(frame, TemperatureCol))),
     daily_avg_consumption |-> daily_avg_consumption,
     efficiency_score |-> IF avg_price # Num(0)
                          THEN FDiv(daily_avg_consumption, avg_price)
                          ELSE Num(0),
     num_days_in_filter |-> num_days_in_filter]

\* lines 40-54
Summary(frame, total_consumption, avg_price, num_days_in_filter, daily_avg_consumption) ==
    [total_consumption |-> total_consumption,
     total_bill |-> SeriesSum(Column(frame, BillCol)),
     avg_price |-> avg_price,
     avg_temp |-> SeriesMean(Column(frame, TemperatureCol)),
     max_consumption |-> SeriesMax(Column(frame, ConsumptionCol)),
     min_consumption |-> SeriesMin(Column(frame, ConsumptionCol)),
     price_volatility |-> SeriesStd(Column(frame, PriceCol)),
     temp_range |-> FSub(SeriesMax(Column(frame, TemperatureCol)),
                         SeriesMin(Column(frame, TemperatureCol))),
     daily_avg_consumption |-> daily_avg_consumption,
     efficiency_score |-> IF FLess(Num(0), avg_price)
                          THEN FDiv(daily_avg_consumption, avg_price)
                          ELSE Num(0),
     num_days_in_filter |-> num_days_in_filter]

\* line 37
DailyAverage(frame, total_consumption, avg_price, num_days_in_filter) ==
    Summary(frame, total_consumption, avg_price, num_days_in_filter,
            FDiv(total_consumption, Num(num_days_in_filter)))

\* variant: the days are the dates that have rows
MetricsOfDatesWithRows(frame, start_date, end_date) ==
    DailyAverage(frame, SeriesSum(Column(frame, ConsumptionCol)),
                 SeriesMean(Column(frame, PriceCol)),
                 Cardinality({DateOf(frame.rows[i].ts) : i \in 1..Len(frame.rows)}))

\* lines 24-36
MetricsOf(frame, start_date, end_date) ==
    DailyAverage(frame, SeriesSum(Column(frame, ConsumptionCol)),
                 SeriesMean(Column(frame, PriceCol)),
                 DaysInWindow(start_date, end_date))

\* the four columns .agg, .corr and the statistics select by name
AggColumns == <<ConsumptionCol, BillCol, PriceCol, TemperatureCol>>

MissesColumn(frame) == \E k \in 1..4 : ~HasColumn(frame, AggColumns[k])

\* an empty slice gives {}; a column that is looked up and missing is a KeyError
calculate_overall_metrics(frame, start_date, end_date) ==
    IF IsEmpty(frame) THEN Ok(<<>>)
    ELSE IF MissesColumn(frame) THEN Raise("KeyError")
    ELSE Ok(MetricsOf(frame, start_date, end_date))

-----------------------------------------------------------------------------
(* chart_utils.prepare_chart_data: DataFrame.resample(rule).agg(...) *)

RECURSIVE DayRange(_, _, _)
DayRange(a, b, step) == IF a > b THEN <<>> ELSE <<a>> \o DayRange(a + step, b, step)

\* date + MonthBegin(): the first day of the next month
NextMonthBegin(date) == ReplaceDay1(ReplaceDay1(date) + 31)

RECURSIVE MonthRange(_, _)
MonthRange(a, b) == IF a > b THEN <<>> ELSE <<a>> \o MonthRange(NextMonthBegin(a), b)

\* date - Week(weekday=6): the last Sunday before the date
SundayBefore(date) == IF Weekday(date) = 6 THEN date - 7 ELSE date - (Weekday(date) + 1)

\* date + Week(weekday=6): the first Sunday after the date
SundayAfter(date) == IF Weekday(date) = 6 THEN date + 7 ELSE date + (6 - Weekday(date))

group_map == [Daily |-> "D", Weekly |-> "W", Monthly |-> "MS"]

Midnights(dates) == [i \in 1..Len(dates) |-> Midnight(dates[i])]

\* bins closed and labelled on the left: the last edge only ends the last bin
LeftBins(binner) ==
    [edges |-> binner, closed |-> "left", labels |-> SubSeq(binner, 1, Len(binner) - 1)]

\* variant: the bins closed on the right are labelled on the left
RightBinsLabelledLeft(binner) ==
    [edges |-> [i \in 1..Len(binner) |-> binner[i] + 1439], closed |-> "right",
     labels |-> SubSeq(binner, 1, Len(binner) - 1)]

\* bins closed and labelled on the right, each edge moved to the last instant
\* of its day: the first edge only starts the first bin
RightBins(binner) ==
    [edges |-> [i \in 1..Len(binner) |-> binner[i] + 1439], closed |-> "right",
     labels |-> SubSeq(binner, 2, Len(binner))]

\* _adjust_bin_edges: a last edge is dropped when the one before it already
\* lies after the last row (an edge is the last instant of its day and a
\* timestamp a whole minute, so the edge is later when its minute is not earlier)
WeekBins(binner, last) ==
    IF binner[Len(binner) - 1] + 1439 >= last
    THEN RightBins(SubSeq(binner, 1, Len(binner) - 1))
    ELSE RightBins(binner)

\* TimeGrouper._get_time_bins for the rows' first and last timestamp: 'D' and
\* 'MS' run from the day (month) of the first row to the one after the last
\* row's; 'W' is 'W-SUN', from the Sunday before the first row to the Sunday
\* after the last
TimeBins(rule, first, last) ==
    IF rule = "D"
    THEN LeftBins(Midnights(DayRange(DateOf(first), DateOf(last) + 1, 1)))
    ELSE IF rule = "MS"
    THEN LeftBins(Midnights(MonthRange(ReplaceDay1(DateOf(first)),
                                       NextMonthBegin(DateOf(last)))))
    ELSE WeekBins(Midnights(DayRange(SundayBefore(DateOf(first)),
                                     SundayAfter(DateOf(last)), 7)), last)

\* lib.generate_bins_dt64: for each bin the number of rows up to its right edge
BinEnds(rows, tb) ==
    [i \in 1..Len(tb.edges) - 1 |->
        IF tb.closed = "right"
        THEN SearchSortedRight(rows, tb.edges[i + 1])
        ELSE SearchSortedLeft(rows, tb.edges[i + 1])]

\* variant: a bin also holds the rows of the bins before it
BinRowsFromTheFirst(rows, ends, i) == SubSeq(rows, 1, ends[i])

\* the rows of bin i: from the end of the bin before it to its own end
BinRows(rows, ends, i) == SubSeq(rows, (IF i = 1 THEN 0 ELSE ends[i - 1]) + 1, ends[i])

\* variant: every column is summed
ReduceBySum(c, xs) == SeriesSum(xs)

\* .agg({consumption: 'sum', bill: 'sum', price: 'mean', temperature: 'mean'})
Reduce(c, xs) == IF c \in {ConsumptionCol, BillCol} THEN SeriesSum(xs) ELSE SeriesMean(xs)

AggRow(sub) == [c \in {AggColumns[k] : k \in 1..4} |-> Reduce(c, Column(sub, c))]

\* variant: only the bins that hold a row give an output row
RECURSIVE OccupiedFrom(_, _, _, _)
OccupiedFrom(frame, labels, ends, i) ==
    IF i > Len(labels) THEN <<>>
    ELSE (IF Len(BinRows(frame.rows, ends, i)) = 0 THEN <<>>
          ELSE <<[Date |-> labels[i],
                  val |-> AggRow(SubFrame(frame, BinRows(frame.rows, ends, i)))]>>)
         \o OccupiedFrom(frame, labels, ends, i + 1)

AggregatedOccupied(frame, labels, ends) == OccupiedFrom(frame, labels, ends, 1)

Aggregated(frame, labels, ends) ==
    [i \in 1..Len(labels) |->
        [Date |-> labels[i],
         val |-> AggRow(SubFrame(frame, BinRows(frame.rows, ends, i)))]]

Grouped(frame, tb) == Aggregated(frame, tb.labels, BinEnds(frame.rows, tb))

\* df_grouped: one row per label, in the labels' order
Resample(frame, rule) ==
    IF Len(frame.rows) = 0 THEN <<>>
    ELSE Grouped(frame, TimeBins(rule, IndexMin(frame), IndexMax(frame)))

\* reset_index().melt('Date', var_name='Metric', value_name='Value'): the long
\* format, column after column
Melt(grouped) ==
    [n \in 1..4 * Len(grouped) |->
        [Date |-> grouped[((n - 1) % Len(grouped)) + 1].Date,
         Metric |-> AggColumns[((n - 1) \div Len(grouped)) + 1],
         Value |-> grouped[((n - 1) % Len(grouped)) + 1].val[
                       AggColumns[((n - 1) \div Len(grouped)) + 1]]]]

prepare_chart_data(frame, group_by) ==
    IF MissesColumn(frame) THEN Raise("KeyError")
    ELSE Ok(Melt(Resample(frame, group_map[group_by])))

\* create_chart: the chart is drawn from prepare_chart_data's long format
create_chart(frame, group_by) == prepare_chart_data(frame, group_by)

\* create_correlation_heatmap selects the four columns by name
create_correlation_heatmap(frame) ==
    IF MissesColumn(frame) THEN Raise("KeyError") ELSE Ok(<<>>)

calculate_key_statistics(frame, efficiency_score) ==
    IF MissesColumn(frame) THEN Raise("KeyError")
    ELSE Ok([Peak |-> SeriesMax(Column(frame, ConsumptionCol)),
             Lowest |-> SeriesMin(Column(frame, ConsumptionCol)),
             PriceRange |-> FSub(SeriesMax(Column(frame, PriceCol)),
                                 SeriesMin(Column(frame, PriceCol))),
             TempRange |-> FSub(SeriesMax(Column(frame, TemperatureCol)),
                                SeriesMin(Column(frame, TemperatureCol))),
             Efficiency |-> efficiency_score])

-----------------------------------------------------------------------------
(* sidebar_controls.render_sidebar_controls *)

\* st.session_state before the first run: no widget has a value yet
NoWidgets == [set |-> FALSE, start_date |-> 0, end_date |-> 0, group_by |-> "Daily"]

MsgSelectedPeriod == "Selected Period"
MsgAvgConsumption == "Avg Daily Consumption"
MsgAvgNotAvailable == "Avg Daily Consumption N/A"
MsgInvalidWindow == "Error: End date must be after start date."
MsgNoData == "No data available for the selected date range."
MsgLoadFailed == "Data Loading Failed: The dashboard cannot be displayed."

\* a date picker shows its session value, or the default on the first run
Selected(w, def) ==
    [set |-> TRUE,
     start_date |-> IF w.set THEN w.start_date ELSE def[1],
     end_date |-> IF w.set THEN w.end_date ELSE def[2],
     group_by |-> w.group_by]

\* what the sidebar returns, executed and showed; total_days is line 70
SidebarResult(raised, sel, executed, screen) ==
    [raised |-> raised, widgets |-> sel,
     total_days |-> DaysInWindow(sel.start_date, sel.end_date),
     executed |-> {"calculate_default_date_range", "total_days"} \cup executed,
     screen |-> {MsgSelectedPeriod} \cup screen]

\* lines 73-79: the average of the slice, or N/A
QuickStats(sel, df_temp) ==
    IF df_temp.raised # "None"
    THEN SidebarResult(df_temp.raised, sel, {"sidebar_slice"}, {})
    ELSE IF IsEmpty(df_temp.value)
    THEN SidebarResult("None", sel, {"sidebar_slice"}, {MsgAvgNotAvailable})
    ELSE IF HasColumn(df_temp.value, ConsumptionCol)
    THEN SidebarResult("None", sel, {"sidebar_slice", "sidebar_mean"}, {MsgAvgConsumption})
    ELSE SidebarResult("KeyError", sel, {"sidebar_slice", "sidebar_mean"}, {})

\* lines 68-79: the quick stats
SidebarStats(frame, sel) ==
    IF sel.start_date <= sel.end_date
    THEN QuickStats(sel, LocSlice(frame, Strftime(sel.start_date), Strftime(sel.end_date)))
    ELSE SidebarResult("None", sel, {}, {})

\* the sidebar of a non-empty frame
render_sidebar_controls(frame, w) ==
    SidebarStats(frame, Selected(w, calculate_default_date_range(frame)))

-----------------------------------------------------------------------------
(* app.py: one run of the script *)

\* what a run executed and showed before any window was chosen
EarlyCycle(status, exc, executed, screen) ==
    [status |-> status, exc |-> exc, executed |-> executed, screen |-> screen,
     window |-> <<>>, total_days |-> 0, filtered |-> EmptyFrame, metrics |-> <<>>]

NoCycle == EarlyCycle("none", "None", {}, {})

\* what a run executed and showed for the window of the widgets sel
Cycle(status, exc, executed, screen, sel, filtered, metrics) ==
    [status |-> status, exc |-> exc, executed |-> executed, screen |-> screen,
     window |-> <<sel.start_date, sel.end_date>>,
     total_days |-> DaysInWindow(sel.start_date, sel.end_date),
     filtered |-> filtered, metrics |-> metrics]

\* lines 92-95
AfterStatistics(filtered, sel, done, screen, metrics, ks) ==
    IF ks.raised # "None"
    THEN Cycle("exception", ks.raised, done, screen, sel, filtered, metrics)
    ELSE Cycle("done", "None", done \cup {"render_data_viewer", "render_footer"},
               screen, sel, filtered, metrics)

\* lines 81-88
AfterHeatmap(filtered, sel, done, screen, metrics, co) ==
    IF co.raised # "None"
    THEN Cycle("exception", co.raised, done, screen, sel, filtered, metrics)
    ELSE AfterStatistics(filtered, sel, done \cup {"calculate_key_statistics"}, screen,
                         metrics,
                         calculate_key_statistics(filtered, metrics.efficiency_score))

\* lines 69-81
AfterChart(filtered, sel, done, screen, metrics, ch) ==
    IF ch.raised # "None"
    THEN Cycle("exception", ch.raised, done, screen, sel, filtered, metrics)
    ELSE AfterHeatmap(filtered, sel, done \cup {"create_correlation_heatmap"}, screen,
                      metrics, create_correlation_heatmap(filtered))

\* lines 63-69
AfterMetrics(filtered, sel, done, screen, m) ==
    IF m.raised # "None"
    THEN Cycle("exception", m.raised, done, screen, sel, filtered, <<>>)
    ELSE AfterChart(filtered, sel, done \cup {"render_metrics_display", "create_chart"},
                    screen, m.value, create_chart(filtered, sel.group_by))

\* variant: the statistics run on a slice without rows too
AfterFilterAlways(sel, done, screen, f) ==
    IF f.raised # "None"
    THEN Cycle("exception", f.raised, done, screen, sel, EmptyFrame, <<>>)
    ELSE AfterMetrics(f.value, sel,
                      done \cup {"render_section_header", "calculate_overall_metrics"},
                      screen,
                      calculate_overall_metrics(f.value, sel.start_date, sel.end_date))

\* lines 57-63: the section header, then "no data" or the statistics
AfterFilter(sel, done, screen, f) ==
    IF f.raised # "None"
    THEN Cycle("exception", f.raised, done, screen, sel, EmptyFrame, <<>>)
    ELSE IF IsEmpty(f.value)
    THEN Cycle("done", "None", done \cup {"render_section_header"},
               screen \cup {MsgNoData}, sel, f.value, <<>>)
    ELSE AfterMetrics(f.value, sel,
                      done \cup {"render_section_header", "calculate_overall_metrics"},
                      screen,
                      calculate_overall_metrics(f.value, sel.start_date, sel.end_date))

\* lines 41-54: the selections, the invalid window, the filter
AfterSidebar(frame, sb, done, screen) ==
    IF sb.raised # "None"
    THEN Cycle("exception", sb.raised, done, screen, sb.widgets, EmptyFrame, <<>>)
    ELSE IF sb.widgets.start_date > sb.widgets.end_date
    THEN Cycle("done", "None", done, screen \cup {MsgInvalidWindow}, sb.widgets,
               EmptyFrame, <<>>)
    ELSE AfterFilter(sb.widgets, done \cup {"filter_data_by_date_range"}, screen,
                     filter_data_by_date_range(frame, sb.widgets.start_date,
                                               sb.widgets.end_date))

WithSidebar(frame, sb, done, screen) ==
    [widgets |-> sb.widgets,
     cycle |-> AfterSidebar(frame, sb, done \cup sb.executed, screen \cup sb.screen)]

\* lines 35-95: the dashboard of a non-empty Dataset
RenderDashboard(frame, w, done, screen) ==
    WithSidebar(frame, render_sidebar_controls(frame, w),
                done \cup {"render_main_header", "render_sidebar_controls"}, screen)

Outcome(ld, r) ==
    [cache |-> ld.cache, ran |-> ld.ran, widgets |-> r.widgets, cycle |-> r.cycle]

ErrorsOf(v) == {v.errors[i] : i \in 1..Len(v.errors)}

\* lines 33-99: the dashboard of a non-empty Dataset, else the error state; an
\* exception ends the run where it is raised.  st.error of load_data is shown
\* again when the stored value is used.
AfterLoad(ld, w) ==
    IF ld.value.raised # "None"
    THEN Outcome(ld, [widgets |-> w,
                      cycle |-> EarlyCycle("exception", ld.value.raised,
                                           {"apply_custom_css", "load_data"}, {})])
    ELSE IF IsEmpty(ld.value.df)
    THEN Outcome(ld, [widgets |-> w,
                      cycle |-> EarlyCycle("done", "None",
                                           {"apply_custom_css", "load_data",
                                            "render_error_message"},
                                           ErrorsOf(ld.value) \cup {MsgLoadFailed})])
    ELSE Outcome(ld, RenderDashboard(ld.value.df, w, {"apply_custom_css", "load_data"},
                                     ErrorsOf(ld.value)))

\* the whole script: load (through the cache), then render
RunScript(c, cons, price, w) == AfterLoad(CallLoadData(c, cons, price), w)

-----------------------------------------------------------------------------
(* The dashboard process: the two files on disk, the st.cache_data store of *)
(* load_data, the session's widget values and the last run of the script    *)

NoCall == [op |-> "none", args |-> <<>>]

\* the consumption file of the dashboard: missing, or hourly rows in ascending
\* order with ISO 'time' cells

ConsA == File(<<[time |-> IsoText(2025, 1, 30, 22, 0), kWh |-> Num(1)],
                [time |-> IsoText(2025, 1, 30, 23, 0), kWh |-> Num(2)],
                [time |-> IsoText(2025, 2, 1, 0, 0), kWh |-> Num(3)]>>)

ConsB == File(<<[time |-> IsoText(2025, 2, 1, 0, 0), kWh |-> Num(4)]>>)

\* the price file: missing, with a timestamp written day first, hourly rows in
\* ascending order, or rows of hours the consumption file does not have
PriceBad == File(<<[timestamp |-> PriceText(22, 0, 30, 1, 2025),
                    Price |-> Num(10), Temperature |-> Num(0 - 3)]>>)

PriceA == File(<<[timestamp |-> PriceText(22, 0, 1, 30, 2025),
                  Price |-> Num(10), Temperature |-> Num(0 - 3)],
                 [timestamp |-> PriceText(23, 0, 1, 30, 2025),
                  Price |-> Num(0 - 5), Temperature |-> Num(0 - 4)],
                 [timestamp |-> PriceText(0, 0, 2, 1, 2025),
                  Price |-> Num(0), Temperature |-> Num(2)]>>)

PriceB == File(<<[timestamp |-> PriceText(12, 0, 3, 1, 2025),
                  Price |-> Num(7), Temperature |-> Num(1)]>>)

AppConsFiles == {Absent, ConsA, ConsB}

AppPriceFiles == {Absent, PriceBad, PriceA, PriceB}

GroupBys == {"Daily", "Weekly", "Monthly"}

Init ==
    /\ consFile \in AppConsFiles
    /\ priceFile \in AppPriceFiles
    /\ cache = NotCached
    /\ loads = 0
    /\ widgets = NoWidgets
    /\ cycle = NoCycle
    /\ df = EmptyFrame
    /\ call = NoCall
    /\ ret = <<>>

\* the state after a run of the script
Commit(r) ==
    /\ loads + r.ran <= MaxLoads
    /\ cache' = r.cache
    /\ loads' = loads + r.ran
    /\ widgets' = r.widgets
    /\ cycle' = r.cycle
    /\ UNCHANGED <<consFile, priceFile, df, call, ret>>

\* one run of app.py with the session's widget values w
Run(w) == Commit(RunScript(cache, consFile, priceFile, w))

\* a browser session opens the page: no widget has a value
OpenPage == Run(NoWidgets)

\* the script runs again with the widgets as they are
Rerun ==
    /\ cycle.status # "none"
    /\ Run(widgets)

\* the dates the pickers accept: min_value..max_value of the sidebar
PickerDates ==
    IF cache.hit /\ ~IsEmpty(cache.value.df)
    THEN DateOf(IndexMin(cache.value.df))..DateOf(IndexMax(cache.value.df))
    ELSE {}

SidebarShown == widgets.set /\ "render_sidebar_controls" \in cycle.executed

PickStartDate(d) ==
    /\ SidebarShown
    /\ d # widgets.start_date
    /\ Run([widgets EXCEPT !.start_date = d])

PickEndDate(d) ==
    /\ SidebarShown
    /\ d # widgets.end_date
    /\ Run([widgets EXCEPT !.end_date = d])

PickGroupBy(g) ==
    /\ SidebarShown
    /\ g # widgets.group_by
    /\ Run([widgets EXCEPT !.group_by = g])

\* the files on disk are replaced while the process runs
EditFiles(c, p) ==
    /\ <<c, p>> # <<consFile, priceFile>>
    /\ consFile' = c
    /\ priceFile' = p
    /\ UNCHANGED <<cache, loads, widgets, cycle, df, call, ret>>

Next ==
    \/ OpenPage
    \/ Rerun
    \/ \E d \in PickerDates : PickStartDate(d)
    \/ \E d \in PickerDates : PickEndDate(d)
    \/ \E g \in GroupBys : PickGroupBy(g)
    \/ \E c \in AppConsFiles, p \in AppPriceFiles : EditFiles(c, p)

Spec == Init /\ [][Next]_vars

-----------------------------------------------------------------------------
(* load_data called on bounded source tables *)

SeqsUpTo(S, n) == UNION {[1..k -> S] : k \in 0..n}

\* consumption rows of hours 0..2 of one day, one of them without its kWh
ConsRowChoices ==
    {[time |-> IsoText(2025, 1, 31, h, 0), kWh |-> Num(h + 1)] : h \in 0..2}
    \cup {[time |-> IsoText(2025, 1, 31, 1, 0), kWh |-> NaN]}

\* price rows of hours 1..3 of that day, one without its Temperature and one
\* with its date written day first
PriceRowChoices ==
    {[timestamp |-> PriceText(h, 0, 1, 31, 2025), Price |-> Num(10 * h),
      Temperature |-> Num(0 - h)] : h \in 1..3}
    \cup {[timestamp |-> PriceText(2, 0, 1, 31, 2025), Price |-> Num(20),
           Temperature |-> NaN]}
    \cup {[timestamp |-> PriceText(1, 0, 31, 1, 2025), Price |-> Num(10),
           Temperature |-> Num(0 - 1)]}

InitLoad ==
    /\ consFile \in {Absent} \cup {File(t) : t \in SeqsUpTo(ConsRowChoices, MaxRows)}
    /\ priceFile \in {Absent} \cup {File(t) : t \in SeqsUpTo(PriceRowChoices, MaxRows)}
    /\ cache = NotCached
    /\ loads = 0
    /\ widgets = NoWidgets
    /\ cycle = NoCycle
    /\ df = EmptyFrame
    /\ call = NoCall
    /\ ret = <<>>

CommitLoad(r) ==
    /\ loads + r.ran <= MaxLoads
    /\ cache' = r.cache
    /\ loads' = loads + r.ran
    /\ call' = [op |-> "load_data", args |-> <<>>]
    /\ ret' = r.value
    /\ UNCHANGED <<consFile, priceFile, widgets, cycle, df>>

LoadCall == CommitLoad(CallLoadData(cache, consFile, priceFile))

NextLoad == LoadCall

SpecLoad == InitLoad /\ [][NextLoad]_vars

-----------------------------------------------------------------------------
(* The filter, the default window, the metrics and the aggregator called on *)
(* bounded Datasets: ascending, duplicate-free, every field present         *)

FrameStamps ==
    {Stamp(2024, 12, 31, 23, 0), Stamp(2025, 1, 15, 0, 0), Stamp(2025, 1, 15, 23, 0),
     Stamp(2025, 2, 1, 0, 0), Stamp(2025, 2, 2, 23, 0), Stamp(2025, 2, 3, 0, 0)}

RowKinds ==
    {[kWh |-> Num(1), Price |-> Num(10), Temperature |-> Num(0 - 3)],
     [kWh |-> Num(2), Price |-> Num(0 - 5), Temperature |-> Num(4)],
     [kWh |-> Num(3), Price |-> Num(0), Temperature |-> Num(0)]}

RECURSIVE Ascending(_)
Ascending(S) ==
    IF S = {} THEN <<>> ELSE <<LeastOf(S)>> \o Ascending(S \ {LeastOf(S)})

FrameOf(ts, kind) ==
    [columns |-> <<ConsumptionCol, PriceCol, TemperatureCol, BillCol>>,
     rows |-> [i \in 1..Len(ts) |->
        [ts |-> ts[i],
         val |-> (ConsumptionCol :> kind[ts[i]].kWh)
              @@ (PriceCol :> kind[ts[i]].Price)
              @@ (TemperatureCol :> kind[ts[i]].Temperature)
              @@ (BillCol :> FMul(kind[ts[i]].kWh,
                                  FDiv(kind[ts[i]].Price, Num(100))))]]]

Frames ==
    UNION {{FrameOf(Ascending(S), kind) : kind \in [S -> RowKinds]} :
              S \in {T \in SUBSET FrameStamps : Cardinality(T) <= MaxRows}}

WindowDates == {DateOf(t) : t \in FrameStamps}

InitCalls ==
    /\ df \in Frames
    /\ consFile = Absent
    /\ priceFile = Absent
    /\ cache = NotCached
    /\ loads = 0
    /\ widgets = NoWidgets
    /\ cycle = NoCycle
    /\ call = NoCall
    /\ ret = <<>>

\* one call on the frame, and what it returned
Returns(op, args, value) ==
    /\ call = NoCall
    /\ call' = [op |-> op, args |-> args]
    /\ ret' = value
    /\ UNCHANGED <<consFile, priceFile, cache, loads, widgets, cycle, df>>

FilterCall(s, e) ==
    Returns("filter_data_by_date_range", <<s, e>>, filter_data_by_date_range(df, s, e))

DefaultRangeCall ==
    /\ ~IsEmpty(df)
    /\ Returns("calculate_default_date_range", <<>>, calculate_default_date_range(df))

MetricsCall(s, e) ==
    /\ s <= e
    /\ Returns("calculate_overall_metrics", <<s, e>>, calculate_overall_metrics(df, s, e))

PrepareCall(g) ==
    Returns("prepare_chart_data", <<g>>, prepare_chart_data(df, g))

NextCalls ==
    \/ \E s \in WindowDates, e \in WindowDates : FilterCall(s, e)
    \/ DefaultRangeCall
    \/ \E s \in WindowDates, e \in WindowDates : MetricsCall(s, e)
    \/ \E g \in GroupBys : PrepareCall(g)

SpecCalls == InitCalls /\ [][NextCalls]_vars

-----------------------------------------------------------------------------
(* Properties *)

SameTime(a, b) == a.Y = b.Y /\ a.m = b.m /\ a.d = b.d /\ a.H = b.H /\ a.M = b.M

\* the pairs (consumption row, price row) of one timestamp with kWh, Price and
\* Temperature all present
CompletePairs ==
    {p \in (1..Len(consFile.rows)) \X (1..Len(priceFile.rows)) :
        /\ SameTime(consFile.rows[p[1]].time, priceFile.rows[p[2]].timestamp)
        /\ ~IsNaN(consFile.rows[p[1]].kWh)
        /\ ~IsNaN(priceFile.rows[p[2]].Price)
        /\ ~IsNaN(priceFile.rows[p[2]].Temperature)}

BothTablesRead ==
    /\ call.op = "load_data"
    /\ consFile.present
    /\ priceFile.present
    /\ \A j \in 1..Len(priceFile.rows) : CanParseFormat(priceFile.rows[j].timestamp)

HoursOf(rows, field) == {rows[i][field].H : i \in 1..Len(rows)}

\* C1: the Dataset load_data returns holds exactly the timestamps that occur in
\* the consumption table and in the price table with kWh, Price and
\* Temperature present: one row per complete pair, none without a counterpart.
C1_JoinKeepsExactlyTheMatches ==
    BothTablesRead =>
        /\ ret.raised = "None"
        /\ ret.errors = <<>>
        /\ IndexSet(ret.df) =
             {Stamp(consFile.rows[p[1]].time.Y, consFile.rows[p[1]].time.m,
                    consFile.rows[p[1]].time.d, consFile.rows[p[1]].time.H,
                    consFile.rows[p[1]].time.M) : p \in CompletePairs}
        /\ Len(ret.df.rows) = Cardinality(CompletePairs)

\* consumption hours {0,1,2} and price hours {1,2,3} were joined to hours {1,2}
C1_Witness ==
    /\ BothTablesRead
    /\ HoursOf(consFile.rows, "time") = {0, 1, 2}
    /\ HoursOf(priceFile.rows, "timestamp") = {1, 2, 3}
    /\ Cardinality(CompletePairs) = 2
    /\ IndexSet(ret.df) = {Stamp(2025, 1, 31, 1, 0), Stamp(2025, 1, 31, 2, 0)}

Called(op) == call.op = op

InWindow(ts, s, e) == s <= DateOf(ts) /\ DateOf(ts) <= e

RowInWindow(r) == InWindow(r.ts, call.args[1], call.args[2])

\* C2: for start_date <= end_date, filter_data_by_date_range returns (without
\* raising) exactly the rows whose calendar date d has start_date <= d <=
\* end_date, every hour of end_date included, in their order; the result is
\* empty iff no row's date is in the window.
C2_FilterIsTheWindow ==
    (Called("filter_data_by_date_range") /\ call.args[1] <= call.args[2]) =>
        /\ ret.raised = "None"
        /\ ret.value.rows = SelectSeq(df.rows, RowInWindow)
        /\ IsEmpty(ret.value) <=> ~\E i \in 1..Len(df.rows) : RowInWindow(df.rows[i])

\* a window that keeps a row of 23:00 of its end date and leaves a row out
C2_Witness ==
    /\ Called("filter_data_by_date_range")
    /\ call.args[1] < call.args[2]
    /\ Len(ret.value.rows) < Len(df.rows)
    /\ \E i \in 1..Len(ret.value.rows) :
          /\ DateOf(ret.value.rows[i].ts) = call.args[2]
          /\ ret.value.rows[i].ts % 1440 = 23 * 60

\* the first day of the month of a date, found by its calendar reading alone
MonthStartOf(date) ==
    CHOOSE x \in (date - 31)..date :
        /\ CivilFromDays(x).d = 1
        /\ CivilFromDays(x).m = CivilFromDays(date).m
        /\ CivilFromDays(x).Y = CivilFromDays(date).Y

\* the month before the month of the last date M
PrevMonthLast(M) == MonthStartOf(M) - 1

PrevMonthFirst(M) == MonthStartOf(PrevMonthLast(M))

DataMin == DateOf(IndexMin(df))

DataMax == DateOf(IndexMax(df))

\* C3 as stated: the complete month before M's month when the data covers
\* it, and the full range (m, M) whenever it does not
C3_Original ==
    Called("calculate_default_date_range") =>
        /\ DataMin <= PrevMonthFirst(DataMax)
              => ret = <<PrevMonthFirst(DataMax), PrevMonthLast(DataMax)>>
        /\ DataMin > PrevMonthFirst(DataMax) => ret = <<DataMin, DataMax>>

\* C3 (amended): calculate_default_date_range returns the first and last day
\* of the month before M's month when m is on or before that month's first
\* day; (m, last day of that month) when m falls inside that month; and the
\* full range (m, M) only when m lies in M's own month.
C3_DefaultRange ==
    Called("calculate_default_date_range") =>
        /\ DataMin <= PrevMonthFirst(DataMax)
              => ret = <<PrevMonthFirst(DataMax), PrevMonthLast(DataMax)>>
        /\ (PrevMonthFirst(DataMax) < DataMin /\ DataMin <= PrevMonthLast(DataMax))
              => ret = <<DataMin, PrevMonthLast(DataMax)>>
        /\ DataMin > PrevMonthLast(DataMax) => ret = <<DataMin, DataMax>>

\* m in the middle of the month before M's month: a partial month came back
C3_Witness ==
    /\ Called("calculate_default_date_range")
    /\ PrevMonthFirst(DataMax) < DataMin
    /\ DataMin < PrevMonthLast(DataMax)
    /\ ret = <<DataMin, PrevMonthLast(DataMax)>>

\* the files as load_data is about to read them fail one of its three checks
SourcesFail ==
    \/ ~consFile.present
    \/ ~priceFile.present
    \/ \E j \in 1..Len(priceFile.rows) : ~CanParseFormat(priceFile.rows[j].timestamp)

ErrorStateOnly == {"apply_custom_css", "load_data", "render_error_message"}

\* C4: when the consumption file is absent, or the price file is absent, or a
\* price timestamp is not in the '%H:%M %m/%d/%Y' format, the run that loads
\* the files gets an empty Dataset with an error reported, and renders the
\* error state and nothing else (no header, sidebar, filter or statistic).
C4_LoadFailureRendersOnlyTheError ==
    [][(~cache.hit /\ cache'.hit /\ SourcesFail) =>
          /\ cache'.value.raised = "None"
          /\ cache'.value.df = EmptyFrame
          /\ cache'.value.errors # <<>>
          /\ cycle'.status = "done"
          /\ cycle'.executed = ErrorStateOnly
          /\ cycle'.screen = ErrorsOf(cache'.value) \cup {MsgLoadFailed}]_vars

\* a price file with a day-first timestamp was loaded and the error state shown
C4_Witness ==
    /\ cache.hit
    /\ cache.value.errors = <<PriceDateError, "ValueError">>
    /\ cache.value.df = EmptyFrame
    /\ cycle.executed = ErrorStateOnly
    /\ MsgLoadFailed \in cycle.screen

InvalidWindow == Len(cycle.window) = 2 /\ cycle.window[1] > cycle.window[2]

WindowComputations ==
    {"total_days", "sidebar_slice", "sidebar_mean", "filter_data_by_date_range",
     "calculate_overall_metrics", "create_chart", "create_correlation_heatmap",
     "calculate_key_statistics"}

\* C5: with start_date > end_date the run shows the inline error and computes
\* nothing from the window: no filter, no statistic, and no day count or slice
\* in the sidebar either.
C5_InvalidWindowComputesNothing ==
    InvalidWindow =>
        /\ MsgInvalidWindow \in cycle.screen
        /\ cycle.executed \cap WindowComputations = {}
        /\ MsgSelectedPeriod \notin cycle.screen

EmptySlice ==
    /\ Len(cycle.window) = 2
    /\ cycle.window[1] <= cycle.window[2]
    /\ "filter_data_by_date_range" \in cycle.executed
    /\ cycle.filtered # EmptyFrame
    /\ Len(cycle.filtered.rows) = 0

Statistics ==
    {"sidebar_mean", "calculate_overall_metrics", "render_metrics_display", "create_chart",
     "create_correlation_heatmap", "calculate_key_statistics"}

\* C6: a valid window whose slice has no row ends the run with the "no data"
\* message and without any statistics function; calculate_overall_metrics
\* called on that slice returns the empty record and does not raise.
C6_EmptySliceShowsNoData ==
    EmptySlice =>
        /\ cycle.status = "done"
        /\ MsgNoData \in cycle.screen
        /\ cycle.executed \cap Statistics = {}
        /\ cycle.metrics = <<>>
        /\ calculate_overall_metrics(cycle.filtered, cycle.window[1], cycle.window[2])
              = Ok(<<>>)

\* a one-day window between the rows of a loaded Dataset
C6_Witness ==
    /\ EmptySlice
    /\ cache.hit
    /\ Len(cache.value.df.rows) > 0
    /\ cycle.window[1] = cycle.window[2]
    /\ MsgNoData \in cycle.screen

\* the long format prepare_chart_data returned, as a set of records
Long == {ret.value[n] : n \in 1..Len(ret.value)}

Labels == {x.Date : x \in Long}

ValuesAt(L, c) == {x.Value : x \in {y \in Long : y.Date = L /\ y.Metric = c}}

SameMonth(a, b) ==
    CivilFromDays(a).Y = CivilFromDays(b).Y /\ CivilFromDays(a).m = CivilFromDays(b).m

\* the Monday of the week of a date
MondayOf(date) == date - Weekday(date)

\* two dates of one calendar interval: a day, a Monday-to-Sunday week, a month
SameInterval(g, a, b) ==
    IF g = "Daily" THEN a = b
    ELSE IF g = "Weekly" THEN MondayOf(a) = MondayOf(b)
    ELSE SameMonth(a, b)

\* the rows of the frame in the calendar interval of a label
RowsIn(g, L) ==
    {i \in 1..Len(df.rows) : SameInterval(g, DateOf(df.rows[i].ts), DateOf(L))}

RECURSIVE SumOver(_, _)
RECURSIVE SumWith(_, _, _)
SumOver(S, c) == IF S = {} THEN Num(0) ELSE SumWith(S, c, CHOOSE i \in S : TRUE)

SumWith(S, c, i) == FAdd(df.rows[i].val[c], SumOver(S \ {i}, c))

MeanOver(S, c) == FDiv(SumOver(S, c), Num(Cardinality(S)))

\* C7: each bucket of prepare_chart_data holds, for consumption and bill, the
\* sum and, for price and temperature, the arithmetic mean of exactly the rows
\* whose timestamp falls in the bucket's calendar interval (day, Monday-to-
\* Sunday week, month); every row falls in the interval of some bucket.
C7_BucketsReduceTheirInterval ==
    Called("prepare_chart_data") =>
        /\ ret.raised = "None"
        /\ \A L \in Labels :
              /\ \A c \in {ConsumptionCol, BillCol} :
                    ValuesAt(L, c) = {SumOver(RowsIn(call.args[1], L), c)}
              /\ \A c \in {PriceCol, TemperatureCol} :
                    RowsIn(call.args[1], L) # {}
                       => ValuesAt(L, c) = {MeanOver(RowsIn(call.args[1], L), c)}
        /\ \A i \in 1..Len(df.rows) :
              \E L \in Labels : i \in RowsIn(call.args[1], L)

\* a bucket of three rows: consumption 1 + 2 + 3 and a mean that is no integer
C7_Witness ==
    /\ Called("prepare_chart_data")
    /\ \E L \in Labels :
          /\ Cardinality(RowsIn(call.args[1], L)) = 3
          /\ ValuesAt(L, ConsumptionCol) = {Num(6)}
          /\ ValuesAt(L, PriceCol) = {<<5, 3>>}

\* a calendar interval as a number: consecutive intervals, consecutive numbers
IntervalNo(g, date) ==
    IF g = "Daily" THEN date
    ELSE IF g = "Weekly" THEN MondayOf(date) \div 7
    ELSE CivilFromDays(date).Y * 12 + CivilFromDays(date).m

RowIntervals(g) == {IntervalNo(g, DateOf(df.rows[i].ts)) : i \in 1..Len(df.rows)}

LabelIntervals(g) == {IntervalNo(g, DateOf(L)) : L \in Labels}

AscendingOutput ==
    \A n \in 1..Len(ret.value) - 1 :
        ret.value[n].Metric = ret.value[n + 1].Metric
           => ret.value[n].Date < ret.value[n + 1].Date

OneBucketPerLabel ==
    /\ Len(ret.value) = 4 * Cardinality(Labels)
    /\ \A L \in Labels : \A k \in 1..4 : Cardinality(ValuesAt(L, AggColumns[k])) = 1

\* C8 as stated: one bucket for each interval that holds a row, none for an
\* interval without rows
C8_Original ==
    Called("prepare_chart_data") =>
        /\ AscendingOutput
        /\ OneBucketPerLabel
        /\ LabelIntervals(call.args[1]) = RowIntervals(call.args[1])
        /\ Cardinality(Labels) = Cardinality(RowIntervals(call.args[1]))

\* C8 (amended): the output has exactly one bucket for every calendar interval
\* from the first row's interval to the last row's, in ascending order; an
\* interval between them without rows is there too, with sum 0 for
\* consumption and bill and NaN for the two means.
C8_OneBucketPerIntervalOfTheSpan ==
    Called("prepare_chart_data") =>
        /\ AscendingOutput
        /\ OneBucketPerLabel
        /\ Cardinality(Labels) = Cardinality(LabelIntervals(call.args[1]))
        /\ \A n \in LabelIntervals(call.args[1]) :
              \E a, b \in RowIntervals(call.args[1]) : a <= n /\ n <= b
        /\ \A a, b \in RowIntervals(call.args[1]) :
              a..b \subseteq LabelIntervals(call.args[1])
        /\ \A L \in Labels :
              RowsIn(call.args[1], L) = {}
                 => /\ ValuesAt(L, ConsumptionCol) = {Num(0)}
                    /\ ValuesAt(L, BillCol) = {Num(0)}
                    /\ ValuesAt(L, PriceCol) = {NaN}
                    /\ ValuesAt(L, TemperatureCol) = {NaN}

\* a bucket without rows between two buckets with rows
C8_Witness ==
    /\ Called("prepare_chart_data")
    /\ \E L \in Labels :
          /\ RowsIn(call.args[1], L) = {}
          /\ ValuesAt(L, ConsumptionCol) = {Num(0)}
          /\ \E A, B \in Labels :
                /\ A < L /\ L < B
                /\ RowsIn(call.args[1], A) # {}
                /\ RowsIn(call.args[1], B) # {}

\* the rows from the date of a label on, up to the end of an interval that
\* starts there
RowsFromLabel(g, L) ==
    {i \in 1..Len(df.rows) :
        IF g = "Daily" THEN DateOf(df.rows[i].ts) = DateOf(L)
        ELSE IF g = "Weekly"
        THEN DateOf(L) <= DateOf(df.rows[i].ts) /\ DateOf(df.rows[i].ts) <= DateOf(L) + 6
        ELSE DateOf(L) <= DateOf(df.rows[i].ts) /\ SameMonth(DateOf(df.rows[i].ts), DateOf(L))}

\* the rows of the seven days that end on the date of a label
RowsUpToLabel(L) ==
    {i \in 1..Len(df.rows) :
        DateOf(L) - 6 <= DateOf(df.rows[i].ts) /\ DateOf(df.rows[i].ts) <= DateOf(L)}

FirstDayOfInterval(g, L) ==
    /\ L = Midnight(DateOf(L))
    /\ g = "Weekly" => Weekday(DateOf(L)) = 0
    /\ g = "Monthly" => CivilFromDays(DateOf(L)).d = 1

\* C9 as stated: at every granularity the label is the first day of the
\* bucket's interval and the bucket holds the rows from that day on
C9_Original ==
    Called("prepare_chart_data") =>
        /\ \A L \in Labels :
              /\ FirstDayOfInterval(call.args[1], L)
              /\ ValuesAt(L, ConsumptionCol)
                    = {SumOver(RowsFromLabel(call.args[1], L), ConsumptionCol)}
        /\ \A i \in 1..Len(df.rows) :
              \E L \in Labels : i \in RowsFromLabel(call.args[1], L)

\* C9 (amended): a Daily bucket is labelled by its day and a Monthly bucket by
\* the first day of its month, and holds the rows from that day on; a Weekly
\* bucket is labelled by the last day of its week, the Sunday, and holds the
\* rows of the seven days that end on it.
C9_LabelsOfTheBuckets ==
    Called("prepare_chart_data") =>
        /\ \A L \in Labels :
              IF call.args[1] = "Weekly"
              THEN /\ L = Midnight(DateOf(L))
                   /\ Weekday(DateOf(L)) = 6
                   /\ ValuesAt(L, ConsumptionCol) = {SumOver(RowsUpToLabel(L), ConsumptionCol)}
              ELSE /\ FirstDayOfInterval(call.args[1], L)
                   /\ ValuesAt(L, ConsumptionCol)
                         = {SumOver(RowsFromLabel(call.args[1], L), ConsumptionCol)}
        /\ \A i \in 1..Len(df.rows) :
              \E L \in Labels :
                  IF call.args[1] = "Weekly"
                  THEN i \in RowsUpToLabel(L)
                  ELSE i \in RowsFromLabel(call.args[1], L)

\* a Weekly bucket of a Wednesday row, labelled by the Sunday after it
C9_Witness ==
    /\ Called("prepare_chart_data")
    /\ call.args[1] = "Weekly"
    /\ \E L \in Labels : \E i \in RowsUpToLabel(L) :
          /\ Weekday(DateOf(df.rows[i].ts)) = 2
          /\ DateOf(L) = DateOf(df.rows[i].ts) + 4
          /\ ValuesAt(L, ConsumptionCol) # {Num(0)}

DistinctDates == {DateOf(df.rows[i].ts) : i \in 1..Len(df.rows)}

\* C10: calculate_overall_metrics on a slice with rows sets num_days_in_filter
\* to (end_date - start_date in days) + 1, whatever dates the rows have, and
\* daily_avg_consumption to total_consumption / num_days_in_filter, the total
\* being the sum of the slice's consumption.
C10_DailyAverageOverTheWindow ==
    (Called("calculate_overall_metrics") /\ Len(df.rows) > 0) =>
        /\ ret.raised = "None"
        /\ ret.value.num_days_in_filter = (call.args[2] - call.args[1]) + 1
        /\ ret.value.total_consumption = SumOver(1..Len(df.rows), ConsumptionCol)
        /\ ret.value.daily_avg_consumption
              = FDiv(SumOver(1..Len(df.rows), ConsumptionCol),
                     Num((call.args[2] - call.args[1]) + 1))

\* a window of more days than the slice has dates
C10_Witness ==
    /\ Called("calculate_overall_metrics")
    /\ Len(df.rows) > 0
    /\ Cardinality(DistinctDates) < (call.args[2] - call.args[1]) + 1
    /\ DistinctDates \subseteq call.args[1]..call.args[2]
    /\ ret.value.num_days_in_filter = (call.args[2] - call.args[1]) + 1
    /\ ret.value.daily_avg_consumption # ret.value.total_consumption

AllRows == 1..Len(df.rows)

\* C11: for a slice with rows, efficiency_score is daily_avg_consumption /
\* avg_price when the mean price is above 0, and exactly 0 when the mean price
\* is 0 or negative (no quotient is taken then).
C11_EfficiencyScore ==
    (Called("calculate_overall_metrics") /\ Len(df.rows) > 0) =>
        /\ ret.raised = "None"
        /\ ret.value.avg_price = MeanOver(AllRows, PriceCol)
        /\ MeanOver(AllRows, PriceCol)[1] > 0
              => ret.value.efficiency_score
                    = FDiv(ret.value.daily_avg_consumption, MeanOver(AllRows, PriceCol))
        /\ MeanOver(AllRows, PriceCol)[1] <= 0 => ret.value.efficiency_score = Num(0)

\* a slice whose mean price is -5: the score is 0, not a negative quotient
C11_Witness ==
    /\ Called("calculate_overall_metrics")
    /\ Len(df.rows) > 0
    /\ ret.value.avg_price = Num(0 - 5)
    /\ ret.value.daily_avg_consumption # Num(0)
    /\ ret.value.efficiency_score = Num(0)

RowInCycleWindow(r) == InWindow(r.ts, cycle.window[1], cycle.window[2])

\* the last run rendered the stored Dataset: the error state when it has no
\* rows, else the dashboard, whose slice is cut from the stored rows
CycleOfStored ==
    IF IsEmpty(cache.value.df)
    THEN cycle.executed = ErrorStateOnly
    ELSE /\ "render_sidebar_controls" \in cycle.executed
         /\ "render_error_message" \notin cycle.executed
         /\ Len(cycle.window) = 2
         /\ cycle.window[1] >= DateOf(IndexMin(cache.value.df))
         /\ cycle.window[2] <= DateOf(IndexMax(cache.value.df))
         /\ cycle.filtered # EmptyFrame
               => /\ cycle.filtered.columns = cache.value.df.columns
                  /\ cycle.filtered.rows = SelectSeq(cache.value.df.rows, RowInCycleWindow)

\* C12: load_data's body runs at most once over all runs of the script, a load
\* that failed included; once its return is stored, no run, widget change or
\* change of the files alters the stored Dataset, and every run renders it.
C12_LoadedOnceAndNeverChanged ==
    /\ [](loads <= 1)
    /\ [](cache.hit => (loads = 1 /\ cycle.status # "none" /\ CycleOfStored))
    /\ [][cache.hit => (cache' = cache /\ loads' = loads)]_vars

\* a load that failed is stored, and the error state is still what a run shows
\* after both files have become readable
C12_Witness ==
    /\ cache.hit
    /\ loads = 1
    /\ cache.value.errors # <<>>
    /\ ~SourcesFail
    /\ CompletePairs # {}
    /\ cycle.executed = ErrorStateOnly

FullRangeFilter ==
    /\ Called("filter_data_by_date_range")
    /\ Len(df.rows) > 0
    /\ call.args = <<DateOf(IndexMin(df)), DateOf(IndexMax(df))>>

\* C13: filter_data_by_date_range of a Dataset to the window (date of its
\* first timestamp, date of its last timestamp) returns the Dataset itself:
\* the same columns and the same rows in the same order.
C13_FullRangeRoundTrip ==
    FullRangeFilter =>
        /\ ret.raised = "None"
        /\ ret.value.columns = df.columns
        /\ Len(ret.value.rows) = Len(df.rows)
        /\ \A i \in 1..Len(df.rows) : ret.value.rows[i] = df.rows[i]

\* three rows over more than one day, the first at midnight of the first day
\* and the last at 23:00 of the last day, all returned
C13_Witness ==
    /\ FullRangeFilter
    /\ Len(df.rows) = 3
    /\ call.args[1] < call.args[2]
    /\ df.rows[1].ts % 1440 = 0
    /\ df.rows[3].ts % 1440 = 23 * 60
    /\ ret.value = df

StampOf(t) == Stamp(t.Y, t.m, t.d, t.H, t.M)

ConsStamps == [i \in 1..Len(consFile.rows) |-> StampOf(consFile.rows[i].time)]

PriceStamps == [j \in 1..Len(priceFile.rows) |-> StampOf(priceFile.rows[j].timestamp)]

StrictlyAscending(s) == \A i \in 1..Len(s) - 1 : s[i] < s[i + 1]

DuplicateFree(s) == \A i, j \in 1..Len(s) : s[i] = s[j] => i = j

\* a timestamp that heads a consumption row and a price row with every field
InCompletePair(ts) ==
    \E p \in CompletePairs : StampOf(consFile.rows[p[1]].time) = ts

LoadedStamps == [i \in 1..Len(ret.df.rows) |-> ret.df.rows[i].ts]

\* C14: when the consumption table and the price table each have strictly
\* ascending timestamps, the Dataset of load_data has strictly ascending
\* (hence duplicate-free) timestamps; and load_data does not sort: for a
\* duplicate-free price table and a consumption table with every kWh present,
\* its rows are in the consumption table's order, whatever that order is.
C14_OrderIsTheConsumptionOrder ==
    BothTablesRead =>
        /\ (StrictlyAscending(ConsStamps) /\ StrictlyAscending(PriceStamps))
              => (StrictlyAscending(LoadedStamps) /\ DuplicateFree(LoadedStamps))
        /\ (DuplicateFree(PriceStamps) /\ \A i \in 1..Len(consFile.rows) : ~IsNaN(consFile.rows[i].kWh))
              => LoadedStamps = SelectSeq(ConsStamps, InCompletePair)

\* two ascending tables of three rows joined to two ascending rows
C14_Witness ==
    /\ BothTablesRead
    /\ Len(consFile.rows) = 3
    /\ Len(priceFile.rows) = 3
    /\ StrictlyAscending(ConsStamps)
    /\ StrictlyAscending(PriceStamps)
    /\ Len(ret.df.rows) = 2
    /\ ret.df.rows[1].ts < ret.df.rows[2].ts

MetricsFields ==
    {"total_consumption", "total_bill", "avg_price", "avg_temp", "max_consumption",
     "min_consumption", "price_volatility", "temp_range", "daily_avg_consumption",
     "efficiency_score", "num_days_in_filter"}

\* C15: the four column names load_data gives the Dataset are the names the
\* metrics, the statistics, the aggregator and the heatmap look up, so a run
\* whose slice has rows ends normally with a metrics record of all eleven
\* fields.
C15_LoadedColumnsAreLookedUp ==
    Len(cycle.filtered.rows) > 0 =>
        /\ \A k \in 1..4 : HasColumn(cycle.filtered, AggColumns[k])
        /\ cycle.exc = "None"
        /\ cycle.status = "done"
        /\ "render_metrics_display" \in cycle.executed
        /\ DOMAIN cycle.metrics = MetricsFields

\* C16: for a Dataset with rows, first date m and last date M, the window
\* (s, e) of calculate_default_date_range has m <= s <= e <= M: a valid window
\* within the min_value and max_value of the two date pickers.
C16_DefaultRangeWithinTheData ==
    Called("calculate_default_date_range") =>
        /\ Len(ret) = 2
        /\ DataMin <= ret[1]
        /\ ret[1] <= ret[2]
        /\ ret[2] <= DataMax

\* all rows in one month, on more than one day: the month before has no data
\* and the window is the whole range
C16_Witness ==
    /\ Called("calculate_default_date_range")
    /\ SameMonth(DataMin, DataMax)
    /\ DataMin < DataMax
    /\ ret[1] = DataMin
    /\ ret[2] = DataMax

\* the sum over a set of buckets of one metric of the long format
RECURSIVE BucketSum(_, _)
RECURSIVE BucketSumWith(_, _, _)
BucketSum(S, c) == IF S = {} THEN Num(0) ELSE BucketSumWith(S, c, CHOOSE L \in S : TRUE)

BucketSumWith(S, c, L) ==
    FAdd(CHOOSE v \in ValuesAt(L, c) : TRUE, BucketSum(S \ {L}, c))

OccupiedLabels == {L \in Labels : RowsIn(call.args[1], L) # {}}

\* C17: for a slice with rows and each granularity, every row is in the
\* interval of exactly one bucket, the bucket consumptions sum to the
\* total_consumption calculate_overall_metrics reports for the slice, and the
\* bucket bills sum to its total_bill.
C17_BucketsSumToTheTotals ==
    (Called("prepare_chart_data") /\ Len(df.rows) > 0) =>
        /\ ret.raised = "None"
        /\ OneBucketPerLabel
        /\ \A i \in AllRows :
              Cardinality({L \in Labels : i \in RowsIn(call.args[1], L)}) = 1
        /\ BucketSum(Labels, ConsumptionCol)
              = calculate_overall_metrics(df, DataMin, DataMax).value.total_consumption
        /\ BucketSum(Labels, BillCol)
              = calculate_overall_metrics(df, DataMin, DataMax).value.total_bill

\* three rows in two Weekly buckets, a bucket without rows between them
C17_Witness ==
    /\ Called("prepare_chart_data")
    /\ call.args[1] = "Weekly"
    /\ Len(df.rows) = 3
    /\ Cardinality(OccupiedLabels) = 2
    /\ Cardinality(Labels) > 2
    /\ BucketSum(Labels, ConsumptionCol) = SumOver(AllRows, ConsumptionCol)
    /\ BucketSum(Labels, ConsumptionCol) # Num(0)

=============================================================================
